---- MODULE Spec2Model ----
(***************************************************************************)
(* ESP32AudioRecorder (src/main/boards/common/AudioRecorder.h): one        *)
(* control-side caller issuing InstallDriver / StartRecording /            *)
(* StopRecording / IsRecording, and the FreeRTOS tasks xTaskCreate spawns  *)
(* to run recording_task_function.  A step is one library call of the code *)
(* (fopen, fwrite, i2s_read, xTaskCreate, vTaskDelay, ...) together with   *)
(* the tests and member assignments next to it, so the interleavings TLC   *)
(* explores are those of the control thread with the task(s) at the places *)
(* where a thread can be held up.  vTaskDelay(200 ms) is a pure delay: it  *)
(* says nothing about how far a task got, so the step that ends it is      *)
(* enabled whatever the task is doing.                                     *)
(*                                                                         *)
(* A file is a sequence of runs of bytes.  A byte is known by what it is   *)
(* (byte i of a WavHeader record h, or byte i of the I2S stream) and by    *)
(* the task that wrote it.  A FILE* is a handle with a path, a position    *)
(* and a state.                                                            *)
(* Each task calls fopen once, so handle t is the one task t opens.        *)
(***************************************************************************)
EXTENDS Integers, Sequences, FiniteSets, TLC

\* ---- bounds of the model ------------------------------------------------
MaxTasks == 2      \* tasks xTaskCreate can create in one run
MaxSamples == 1    \* bytes the I2S source delivers in one run
MaxBlock == 1      \* largest bytes_read of one i2s_read (buffer_size in the code)

\* ---- inputs --------------------------------------------------------------
Paths == {"a.wav", "b.wav"}
Configs == {<<16000, 16>>}
TaskIds == 1..MaxTasks

NULL == 0

\* ---- WavHeader ------------------------------------------------------------
\* sizeof(WavHeader): every field is naturally aligned, so there is no padding
HeaderSize == 4 + 4 + 4 + 4 + 4 + 2 + 2 + 4 + 4 + 2 + 2 + 4 + 4

SizeFields == {"wav_size", "data_bytes"}
HeaderFields == {"riff_header", "wav_size", "wave_header", "fmt_header",
                 "fmt_chunk_size", "audio_format", "num_channels", "sample_rate",
                 "byte_rate", "sample_alignment", "bit_depth", "data_header",
                 "data_bytes"}

\* the record write_wav_header builds from m_sample_rate and m_bits_per_sample
PlaceholderHeader(sample_rate, bits_per_sample) ==
    LET num_channels == 1
        bit_depth == bits_per_sample
    IN  [riff_header |-> "RIFF", wav_size |-> 0, wave_header |-> "WAVE",
         fmt_header |-> "fmt ", fmt_chunk_size |-> 16, audio_format |-> 1,
         num_channels |-> num_channels, sample_rate |-> sample_rate,
         byte_rate |-> sample_rate * num_channels * (bit_depth \div 8),
         sample_alignment |-> num_channels * (bit_depth \div 8),
         bit_depth |-> bit_depth, data_header |-> "data", data_bytes |-> 0]

\* a WavHeader local that was never initialised, with bytes unlike any header
JunkHeader ==
    [riff_header |-> "????", wav_size |-> -1, wave_header |-> "????",
     fmt_header |-> "????", fmt_chunk_size |-> -1, audio_format |-> -1,
     num_channels |-> -1, sample_rate |-> -1, byte_rate |-> -1,
     sample_alignment |-> -1, bit_depth |-> -1, data_header |-> "????",
     data_bytes |-> -1]

\* ---- files ----------------------------------------------------------------
\* A file is its bytes, kept as maximal runs: bytes a..b of the WavHeader record h
\* ("hdr"), bytes a..b of the I2S stream ("pcm"), or b never-written bytes
\* ("hole"); w is the task that wrote them.
HdrRun(w, h) == [k |-> "hdr", w |-> w, h |-> h, a |-> 1, b |-> HeaderSize]
PcmRun(w, a, b) == [k |-> "pcm", w |-> w, h |-> JunkHeader, a |-> a, b |-> b]
HoleRun(n) == [k |-> "hole", w |-> 0, h |-> JunkHeader, a |-> 1, b |-> n]

RunLen(r) == r.b - r.a + 1

RECURSIVE FileLen(_)
FileLen(runs) == IF runs = <<>> THEN 0 ELSE RunLen(Head(runs)) + FileLen(Tail(runs))

\* the first n bytes of a file
RECURSIVE Prefix(_, _)
Prefix(runs, n) ==
    IF n <= 0 \/ runs = <<>> THEN <<>>
    ELSE IF RunLen(Head(runs)) <= n
         THEN <<Head(runs)>> \o Prefix(Tail(runs), n - RunLen(Head(runs)))
         ELSE <<[Head(runs) EXCEPT !.b = Head(runs).a + n - 1]>>

\* the bytes of a file after its first n
RECURSIVE Suffix(_, _)
Suffix(runs, n) ==
    IF runs = <<>> THEN <<>>
    ELSE IF n <= 0 THEN runs
    ELSE IF RunLen(Head(runs)) <= n
         THEN Suffix(Tail(runs), n - RunLen(Head(runs)))
         ELSE <<[Head(runs) EXCEPT !.a = Head(runs).a + n]>> \o Tail(runs)

\* two runs that are one run
Joins(r, q) ==
    /\ r.k = q.k /\ r.w = q.w /\ r.h = q.h
    /\ (r.k = "hole" \/ q.a = r.b + 1)

Join(r, q) == IF r.k = "hole" THEN HoleRun(r.b + q.b) ELSE [r EXCEPT !.b = q.b]

RECURSIVE Normalise(_)
Normalise(runs) ==
    IF Len(runs) < 2 THEN runs
    ELSE IF Joins(runs[1], runs[2])
         THEN Normalise(<<Join(runs[1], runs[2])>> \o Tail(Tail(runs)))
         ELSE <<runs[1]>> \o Normalise(Tail(runs))

\* the bytes of a file after `cells` are written at offset pos
WriteAt(bytes, pos, cells) ==
    Normalise(Prefix(bytes, pos)
              \o (IF pos > FileLen(bytes) THEN <<HoleRun(pos - FileLen(bytes))>> ELSE <<>>)
              \o cells
              \o Suffix(bytes, pos + FileLen(cells)))

HeaderCells(w, h) == <<HdrRun(w, h)>>
PcmCells(w, first, n) == <<PcmRun(w, first, first + n - 1)>>

\* the WavHeader record readable at offset 0 of a file, JunkHeader if there is none
HeaderOf(bytes) ==
    IF bytes # <<>> /\ bytes[1].k = "hdr" /\ bytes[1].a = 1 /\ bytes[1].b = HeaderSize
    THEN bytes[1].h
    ELSE JunkHeader

PayloadOf(bytes) == Suffix(bytes, HeaderSize)

VARIABLES
    m_sample_rate,            \* int
    m_bits_per_sample,        \* i2s_bits_per_sample_t
    m_filepath,               \* std::string
    m_file_handle,            \* FILE*: NULL or a handle
    m_recording_task_handle,  \* TaskHandle_t: NULL or a task
    m_is_recording,           \* volatile bool
    m_data_bytes_written,     \* int
    driver,                   \* the I2S driver is installed on m_i2s_port
    cpc,                      \* where the control-side caller is
    ret,                      \* what the control-side call that has just returned
                              \* gave back; NoReturn after any other step
    tasks,                    \* the tasks created by xTaskCreate
    handles,                  \* the FILE objects fopen returned
    disk,                     \* the file namespace
    src_pos,                  \* bytes delivered by the I2S source so far
    crashed                   \* the firmware aborted on an invalid FILE*

vars == <<m_sample_rate, m_bits_per_sample, m_filepath, m_file_handle,
          m_recording_task_handle, m_is_recording, m_data_bytes_written, driver,
          cpc, ret, tasks, handles, disk, src_pos, crashed>>

members == <<m_sample_rate, m_bits_per_sample, m_filepath, m_file_handle,
             m_recording_task_handle, m_is_recording, m_data_bytes_written>>

\* a task: where it is, its locals (result, bytes_read, buffer: the stream index
\* of the first byte in the buffer), and its history: start_ret, what the
\* StartRecording that created it returned; got, the stream bytes i2s_read gave
\* it; werr, an fwrite of it stored nothing; stop_before_data, StopRecording
\* cleared the flag of its session before it had got any byte; ended_at, the
\* place of the vTaskDelete that ended it (lines 266, 281, 314)
NoTask == [pc |-> "none", result |-> "ESP_OK", bytes_read |-> 0, buffer |-> 0,
           start_ret |-> "", got |-> <<>>, werr |-> FALSE,
           stop_before_data |-> FALSE, ended_at |-> ""]
NoHandle == [st |-> "none", mode |-> "", path |-> "", pos |-> 0]
NoFile == [exists |-> FALSE, bytes |-> <<>>]

Created == {t \in TaskIds : tasks[t].pc # "none"}
Alive == {t \in TaskIds : tasks[t].pc \notin {"none", "dead"}}
\* the task of the latest session (0 before the first xTaskCreate)
LastTask == Cardinality(Created)

Returned(op, val) == [op |-> op, val |-> val]
NoReturn == Returned("", "")

\* ---- construction (lines 117-126) ----------------------------------------
Init ==
    /\ m_sample_rate = 0
    /\ m_bits_per_sample = 16
    /\ m_filepath = ""
    /\ m_file_handle = NULL
    /\ m_recording_task_handle = NULL
    /\ m_is_recording = FALSE
    /\ m_data_bytes_written = 0
    /\ driver = FALSE
    /\ cpc = "idle"
    /\ ret = NoReturn
    /\ tasks = [t \in TaskIds |-> NoTask]
    /\ handles = [t \in TaskIds |-> NoHandle]
    /\ disk = [p \in Paths |-> NoFile]
    /\ src_pos = 0
    /\ crashed = FALSE


\* ---- stdio ----------------------------------------------------------------
\* a FILE* that may be passed to fwrite, fseek, fread or fclose
ValidFile(f) == f # NULL /\ handles[f].st = "open"

\* what passing NULL or a closed FILE* to stdio can do: abort, or nothing
UBOutcomes == {"abort", "nothing"}

\* fopen modes that allow fread on the stream
ReadableModes == {"rb", "r+b", "w+b", "a+b"}

\* fwrite(cells) through f: the bytes land at the stream's position, which advances
FWrite(f, cells) ==
    /\ disk' = [disk EXCEPT ![handles[f].path].bytes = WriteAt(@, handles[f].pos, cells)]
    /\ handles' = [handles EXCEPT ![f].pos = @ + FileLen(cells)]

\* task t goes on to pc; a task that deleted itself has no locals left
SetPc(t, pc) ==
    tasks' = [tasks EXCEPT ![t] = IF pc = "dead"
                                  THEN [NoTask EXCEPT !.pc = "dead",
                                                      !.ended_at = tasks[t].pc]
                                  ELSE [@ EXCEPT !.pc = pc]]

\* fclose(f): the FILE object is gone
FClose(f) == handles' = [handles EXCEPT ![f].st = "closed", ![f].pos = 0]

\* ---- control side ---------------------------------------------------------
\* InstallDriver (lines 135-165), called before the recorder is used (line 47).
\* The members are set before anything can fail.
InstallDriver(sample_rate, bits_per_sample) ==
    /\ ~crashed /\ cpc = "idle"
    /\ LastTask = 0 /\ ~m_is_recording
    /\ m_sample_rate' = sample_rate
    /\ m_bits_per_sample' = bits_per_sample
    /\ \/ /\ ~driver          \* i2s_driver_install and i2s_set_pin succeed
          /\ driver' = TRUE
          /\ ret' = Returned("InstallDriver", "true")
       \/ /\ driver' = driver \* i2s_driver_install fails (always, if installed)
          /\ ret' = Returned("InstallDriver", "false")
    /\ UNCHANGED <<m_filepath, m_file_handle, m_recording_task_handle, m_is_recording,
                   m_data_bytes_written, cpc, tasks, handles, disk, src_pos,
                   crashed>>

\* IsRecording (lines 217-219)
IsRecording ==
    /\ ~crashed /\ cpc = "idle"
    /\ ret' = Returned("IsRecording", IF m_is_recording THEN "true" ELSE "false")
    /\ UNCHANGED <<members, driver, cpc, tasks, handles, disk, src_pos, crashed>>

\* StartRejects with the test of line 168 left out
StartRejects_never == FALSE

\* the test of line 168
StartRejects == m_is_recording

\* the paths StartRecording is called with: paths are interchangeable, so the
\* first call takes the first one
StartPaths == IF m_filepath = "" THEN {"a.wav"} ELSE Paths

\* lines 167-175
StartRecording_168(filepath) ==
    /\ ~crashed /\ cpc = "idle"
    /\ IF StartRejects
       THEN /\ cpc' = "idle"
            /\ ret' = Returned("StartRecording", "false")
            /\ UNCHANGED members
       ELSE /\ m_filepath' = filepath
            /\ m_is_recording' = TRUE
            /\ m_data_bytes_written' = 0
            /\ cpc' = "Start_178"
            /\ ret' = NoReturn
            /\ UNCHANGED <<m_sample_rate, m_bits_per_sample, m_file_handle,
                           m_recording_task_handle>>
    /\ UNCHANGED <<driver, tasks, handles, disk, src_pos, crashed>>

\* lines 178-194, xTaskCreate returns pdPASS: the task exists and the handle is set
StartRecording_178_pass ==
    /\ ~crashed /\ cpc = "Start_178"
    /\ LastTask < MaxTasks
    /\ tasks' = [tasks EXCEPT ![LastTask + 1].pc = "fopen_262",
                              ![LastTask + 1].start_ret = "true"]
    /\ m_recording_task_handle' = LastTask + 1
    /\ cpc' = "idle"
    /\ ret' = Returned("StartRecording", "true")
    /\ UNCHANGED <<m_sample_rate, m_bits_per_sample, m_filepath, m_file_handle,
                   m_is_recording, m_data_bytes_written, driver, handles, disk,
                   src_pos, crashed>>

\* StartRecording_178_fail without the reset of the flag at line 189
StartRecording_178_fail_keeps_flag ==
    /\ ~crashed /\ cpc = "Start_178"
    /\ cpc' = "idle"
    /\ ret' = Returned("StartRecording", "false")
    /\ UNCHANGED <<members, driver, tasks, handles, disk, src_pos, crashed>>

\* lines 178-191, xTaskCreate fails
StartRecording_178_fail ==
    /\ ~crashed /\ cpc = "Start_178"
    /\ m_is_recording' = FALSE
    /\ cpc' = "idle"
    /\ ret' = Returned("StartRecording", "false")
    /\ UNCHANGED <<m_sample_rate, m_bits_per_sample, m_filepath, m_file_handle,
                   m_recording_task_handle, m_data_bytes_written, driver, tasks,
                   handles, disk, src_pos, crashed>>

\* StopRejects with the test of line 198 left out
StopRejects_never == FALSE

\* the test of line 198
StopRejects == ~m_is_recording

\* the test of line 209: the delay is taken only if the task handle is not NULL
StopWaits == m_recording_task_handle # NULL

\* lines 197-209
StopRecording_198 ==
    /\ ~crashed /\ cpc = "idle"
    /\ IF StopRejects
       THEN /\ cpc' = "idle"
            /\ ret' = Returned("StopRecording", "false")
            /\ UNCHANGED m_is_recording
       ELSE /\ m_is_recording' = FALSE
            /\ IF StopWaits
               THEN cpc' = "Stop_210" /\ ret' = NoReturn
               ELSE cpc' = "idle" /\ ret' = Returned("StopRecording", "true")
    /\ tasks' = IF ~StopRejects /\ LastTask \in Alive /\ tasks[LastTask].got = <<>>
                THEN [tasks EXCEPT ![LastTask].stop_before_data = TRUE]
                ELSE tasks
    /\ UNCHANGED <<m_sample_rate, m_bits_per_sample, m_filepath, m_file_handle,
                   m_recording_task_handle, m_data_bytes_written, driver,
                   handles, disk, src_pos, crashed>>

\* lines 210-214: vTaskDelay(200 ms) has elapsed, whatever the task has done
StopRecording_210 ==
    /\ ~crashed /\ cpc = "Stop_210"
    /\ cpc' = "idle"
    /\ ret' = Returned("StopRecording", "true")
    /\ UNCHANGED <<members, driver, tasks, handles, disk, src_pos, crashed>>

\* the recorder object no longer exists; "destroyed_rec" records that the
\* destructor found it recording and called StopRecording
Destroyed == cpc \in {"destroyed", "destroyed_rec"}

\* ~ESP32AudioRecorder (lines 128-133) up to the delay inside the StopRecording
\* it calls (lines 198-209); without a delay it runs on to i2s_driver_uninstall
Destructor_129 ==
    /\ ~crashed /\ cpc = "idle"
    /\ IF m_is_recording /\ ~StopRejects
       THEN /\ m_is_recording' = FALSE
            /\ IF StopWaits
               THEN cpc' = "Destructor_210" /\ driver' = driver
               ELSE cpc' = "destroyed_rec" /\ driver' = FALSE
       ELSE /\ cpc' = "destroyed" /\ driver' = FALSE
            /\ UNCHANGED m_is_recording
    /\ tasks' = IF m_is_recording /\ LastTask \in Alive /\ tasks[LastTask].got = <<>>
                THEN [tasks EXCEPT ![LastTask].stop_before_data = TRUE]
                ELSE tasks
    /\ ret' = NoReturn
    /\ UNCHANGED <<m_sample_rate, m_bits_per_sample, m_filepath, m_file_handle,
                   m_recording_task_handle, m_data_bytes_written,
                   handles, disk, src_pos, crashed>>

\* lines 210-214 and 132: the delay of the destructor's StopRecording has
\* elapsed, StopRecording returns and the driver is uninstalled
Destructor_210 ==
    /\ ~crashed /\ cpc = "Destructor_210"
    /\ cpc' = "destroyed_rec"
    /\ driver' = FALSE
    /\ ret' = NoReturn
    /\ UNCHANGED <<members, tasks, handles, disk, src_pos, crashed>>

\* ---- recording_task_function ----------------------------------------------
\* The task reaches the recorder through the pointer xTaskCreate was given
\* (line 259).  Once the recorder is destroyed every access through it is a
\* use of a dead object: the members may still read and write as before (the
\* task's other steps), or the firmware aborts.
Task_after_destructor(t) ==
    /\ ~crashed /\ Destroyed
    /\ t \in Alive
    /\ crashed' = TRUE
    /\ ret' = NoReturn
    /\ UNCHANGED <<members, driver, cpc, tasks, handles, disk, src_pos>>

\* a stdio call on an invalid FILE*: the firmware aborts, or the call does nothing
\* and the task goes on to pc
InvalidFileCall(t, pc) ==
    \E o \in UBOutcomes :
        IF o = "abort"
        THEN crashed' = TRUE /\ UNCHANGED tasks
        ELSE crashed' = crashed /\ SetPc(t, pc)

\* write_wav_header (lines 223-242): the placeholder record, written at the
\* stream's position
write_wav_header(t, file) ==
    FWrite(file, HeaderCells(t, PlaceholderHeader(m_sample_rate, m_bits_per_sample)))

\* what a WavHeader local holds when nothing was stored in it: stack residue,
\* which may or may not be the record write_wav_header left there
UninitialisedHeaders ==
    {JunkHeader, PlaceholderHeader(m_sample_rate, m_bits_per_sample)}

\* fread(&header, 1, sizeof(WavHeader), file) at offset 0 (line 248): the values
\* the local can hold afterwards.  On a stream that is not open for reading
\* fread fails and stores nothing.
FReadHeader(file) ==
    IF handles[file].mode \in ReadableModes
    THEN {HeaderOf(disk[handles[file].path].bytes)}
    ELSE UninitialisedHeaders

\* update_wav_header (lines 244-255)
update_wav_header(t, file, total_data_bytes) ==
    \E read \in FReadHeader(file) :
        LET header == [read EXCEPT !.data_bytes = total_data_bytes,
                                   !.wav_size = total_data_bytes + HeaderSize - 8]
        IN  /\ disk' = [disk EXCEPT ![handles[file].path].bytes =
                                        WriteAt(@, 0, HeaderCells(t, header))]
            /\ handles' = [handles EXCEPT ![file].pos = HeaderSize]

\* line 262, fopen(m_filepath, "wb") succeeds: the file is created or truncated
Task_fopen_ok(t) ==
    /\ ~crashed /\ tasks[t].pc = "fopen_262"
    /\ handles' = [handles EXCEPT ![t] = [st |-> "open", mode |-> "wb",
                                          path |-> m_filepath, pos |-> 0]]
    /\ disk' = [disk EXCEPT ![m_filepath] = [exists |-> TRUE, bytes |-> <<>>]]
    /\ m_file_handle' = t
    /\ SetPc(t, "header_271")
    /\ ret' = NoReturn
    /\ UNCHANGED <<m_sample_rate, m_bits_per_sample, m_filepath,
                   m_recording_task_handle, m_is_recording, m_data_bytes_written,
                   driver, cpc, src_pos, crashed>>

\* lines 262-267, fopen fails: m_file_handle is NULL and the task gives up;
\* m_recording_task_handle is not touched
Task_fopen_fail(t) ==
    /\ ~crashed /\ tasks[t].pc = "fopen_262"
    /\ handles' = [handles EXCEPT ![t].st = "failed"]
    /\ m_file_handle' = NULL
    /\ m_is_recording' = FALSE
    /\ SetPc(t, "dead")
    /\ ret' = NoReturn
    /\ UNCHANGED <<m_sample_rate, m_bits_per_sample, m_filepath,
                   m_recording_task_handle, m_data_bytes_written,
                   driver, cpc, disk, src_pos, crashed>>

\* line 271
Task_header(t) ==
    /\ ~crashed /\ tasks[t].pc = "header_271"
    /\ IF ValidFile(m_file_handle)
       THEN /\ write_wav_header(t, m_file_handle)
            /\ SetPc(t, "malloc_275")
            /\ UNCHANGED crashed
       ELSE /\ InvalidFileCall(t, "malloc_275")
            /\ UNCHANGED <<disk, handles>>
    /\ ret' = NoReturn
    /\ UNCHANGED <<members, driver, cpc, src_pos>>

\* Task_malloc_ok with the task marking the recording as started
Task_malloc_ok_sets_flag(t) ==
    /\ ~crashed /\ tasks[t].pc = "malloc_275"
    /\ m_data_bytes_written' = 0
    /\ m_is_recording' = TRUE
    /\ SetPc(t, "loop_288")
    /\ ret' = NoReturn
    /\ UNCHANGED <<m_sample_rate, m_bits_per_sample, m_filepath, m_file_handle,
                   m_recording_task_handle, driver, cpc,
                   handles, disk, src_pos, crashed>>

\* lines 275 and 285: the buffer is allocated and the counter reset
Task_malloc_ok(t) ==
    /\ ~crashed /\ tasks[t].pc = "malloc_275"
    /\ m_data_bytes_written' = 0
    /\ SetPc(t, "loop_288")
    /\ ret' = NoReturn
    /\ UNCHANGED <<m_sample_rate, m_bits_per_sample, m_filepath, m_file_handle,
                   m_recording_task_handle, m_is_recording, driver, cpc,
                   handles, disk, src_pos, crashed>>

\* lines 276-281: malloc fails; the file is closed, and m_file_handle and
\* m_recording_task_handle keep their values
Task_malloc_fail(t) ==
    /\ ~crashed /\ tasks[t].pc = "malloc_275"
    /\ IF ValidFile(m_file_handle)
       THEN /\ FClose(m_file_handle)
            /\ m_is_recording' = FALSE
            /\ SetPc(t, "dead")
            /\ UNCHANGED crashed
       ELSE /\ InvalidFileCall(t, "dead")
            /\ m_is_recording' = IF crashed' THEN m_is_recording ELSE FALSE
            /\ UNCHANGED handles
    /\ ret' = NoReturn
    /\ UNCHANGED <<m_sample_rate, m_bits_per_sample, m_filepath, m_file_handle,
                   m_recording_task_handle, m_data_bytes_written, driver, cpc,
                   disk, src_pos>>

\* line 288: the loop test; on exit, line 301 frees the buffer.  The locals of
\* the last iteration are dead here and are cleared.
Task_loop(t) ==
    /\ ~crashed /\ tasks[t].pc = "loop_288"
    /\ tasks' = [tasks EXCEPT ![t].pc = IF m_is_recording THEN "read_290"
                                                        ELSE "update_304",
                              ![t].result = "ESP_OK",
                              ![t].bytes_read = 0,
                              ![t].buffer = 0]
    /\ ret' = NoReturn
    /\ UNCHANGED <<members, driver, cpc, handles, disk, src_pos, crashed>>

\* ReadSucceeded without the bytes_read > 0 half of the test
ReadSucceeded_any_length(result, bytes_read) == result = "ESP_OK"

\* the test of line 291
ReadSucceeded(result, bytes_read) == result = "ESP_OK" /\ bytes_read > 0

\* lines 290-291 and 295-297: i2s_read returns, and the block is passed on to
\* fwrite or dropped with a warning
AfterRead(result, bytes_read) ==
    IF ReadSucceeded(result, bytes_read) THEN "fwrite_293" ELSE "loop_288"

\* i2s_read returns ESP_OK with n > 0 bytes: the next n bytes of the source
Task_read_data(t, n) ==
    /\ ~crashed /\ tasks[t].pc = "read_290"
    /\ driver
    /\ src_pos + n <= MaxSamples
    /\ tasks' = [tasks EXCEPT ![t].pc = AfterRead("ESP_OK", n),
                              ![t].result = "ESP_OK",
                              ![t].bytes_read = n, ![t].buffer = src_pos + 1,
                              ![t].got = @ \o [i \in 1..n |-> src_pos + i]]
    /\ src_pos' = src_pos + n
    /\ ret' = NoReturn
    /\ UNCHANGED <<members, driver, cpc, handles, disk, crashed>>

\* i2s_read returns nothing: the timeout passed (ESP_OK, 0 bytes) or the driver
\* reported an error
Task_read_nothing(t, result) ==
    /\ ~crashed /\ tasks[t].pc = "read_290"
    /\ tasks' = [tasks EXCEPT ![t].pc = AfterRead(result, 0),
                              ![t].result = result,
                              ![t].bytes_read = 0]
    /\ ret' = NoReturn
    /\ UNCHANGED <<members, driver, cpc, handles, disk, src_pos, crashed>>

\* lines 293-294, fwrite stores the block; its return value is not looked at
Task_fwrite_ok(t) ==
    /\ ~crashed /\ tasks[t].pc = "fwrite_293"
    /\ IF ValidFile(m_file_handle)
       THEN /\ FWrite(m_file_handle,
                      PcmCells(t, tasks[t].buffer, tasks[t].bytes_read))
            /\ SetPc(t, "loop_288")
            /\ UNCHANGED crashed
       ELSE /\ InvalidFileCall(t, "loop_288")
            /\ UNCHANGED <<disk, handles>>
    /\ m_data_bytes_written' = IF crashed' THEN m_data_bytes_written
                               ELSE m_data_bytes_written + tasks[t].bytes_read
    /\ ret' = NoReturn
    /\ UNCHANGED <<m_sample_rate, m_bits_per_sample, m_filepath, m_file_handle,
                   m_recording_task_handle, m_is_recording, driver, cpc,
                   src_pos>>

\* lines 293-294, fwrite stores nothing (the medium is full or gone); the
\* counter is advanced all the same
Task_fwrite_fail(t) ==
    /\ ~crashed /\ tasks[t].pc = "fwrite_293"
    /\ ValidFile(m_file_handle)
    /\ tasks' = [tasks EXCEPT ![t].pc = "loop_288", ![t].werr = TRUE]
    /\ m_data_bytes_written' = m_data_bytes_written + tasks[t].bytes_read
    /\ ret' = NoReturn
    /\ UNCHANGED <<m_sample_rate, m_bits_per_sample, m_filepath, m_file_handle,
                   m_recording_task_handle, m_is_recording, driver, cpc,
                   handles, disk, src_pos, crashed>>

\* line 304
Task_update(t) ==
    /\ ~crashed /\ tasks[t].pc = "update_304"
    /\ IF ValidFile(m_file_handle)
       THEN /\ update_wav_header(t, m_file_handle, m_data_bytes_written)
            /\ SetPc(t, "fclose_307")
            /\ UNCHANGED crashed
       ELSE /\ InvalidFileCall(t, "fclose_307")
            /\ UNCHANGED <<disk, handles>>
    /\ ret' = NoReturn
    /\ UNCHANGED <<members, driver, cpc, src_pos>>

\* lines 307-314: the file is closed, both handle members are cleared and the
\* task deletes itself
Task_fclose(t) ==
    /\ ~crashed /\ tasks[t].pc = "fclose_307"
    /\ IF ValidFile(m_file_handle)
       THEN /\ FClose(m_file_handle)
            /\ SetPc(t, "dead")
            /\ UNCHANGED crashed
       ELSE /\ InvalidFileCall(t, "dead")
            /\ UNCHANGED handles
    /\ m_file_handle' = IF crashed' THEN m_file_handle ELSE NULL
    /\ m_recording_task_handle' = IF crashed' THEN m_recording_task_handle ELSE NULL
    /\ ret' = NoReturn
    /\ UNCHANGED <<m_sample_rate, m_bits_per_sample, m_filepath,
                   m_is_recording, m_data_bytes_written,
                   driver, cpc, disk, src_pos>>

Task(t) ==
    \/ Task_fopen_ok(t) \/ Task_fopen_fail(t)
    \/ Task_header(t)
    \/ Task_malloc_ok(t) \/ Task_malloc_fail(t)
    \/ Task_loop(t)
    \/ \E n \in 1..MaxBlock : Task_read_data(t, n)
    \/ \E result \in {"ESP_OK", "ESP_FAIL"} : Task_read_nothing(t, result)
    \/ Task_fwrite_ok(t) \/ Task_fwrite_fail(t)
    \/ Task_update(t)
    \/ Task_fclose(t)
    \/ Task_after_destructor(t)

Control ==
    \/ \E c \in Configs : InstallDriver(c[1], c[2])
    \/ IsRecording
    \/ \E p \in StartPaths : StartRecording_168(p)
    \/ StartRecording_178_pass
    \/ StartRecording_178_fail
    \/ StopRecording_198
    \/ StopRecording_210
    \/ Destructor_129
    \/ Destructor_210

Next == Control \/ \E t \in TaskIds : Task(t)

Spec == Init /\ [][Next]_vars


\* ---- properties -----------------------------------------------------------
StartTrue == Returned("StartRecording", "true")
StartFalse == Returned("StartRecording", "false")
StopTrue == Returned("StopRecording", "true")
StopFalse == Returned("StopRecording", "false")

\* the control-side step taken is a step of StartRecording / of StopRecording
StartStep == cpc = "idle" /\ (ret'.op = "StartRecording" \/ cpc' = "Start_178")
StopStep == cpc = "idle" /\ (ret'.op = "StopRecording" \/ cpc' = "Stop_210")

\* task t takes the step that leaves pc
Leaves(t, pc) == tasks[t].pc = pc /\ tasks'[t].pc # pc

\* the bytes fwrite stores for the stream bytes in got, written by task t
RECURSIVE PcmOf(_, _)
PcmOf(t, got) ==
    IF got = <<>> THEN <<>>
    ELSE Normalise(<<PcmRun(t, Head(got), Head(got))>> \o PcmOf(t, Tail(got)))

\* the file task t opened
FileOf(t) == disk[handles[t].path].bytes

\* C1: whenever StopRecording returns true, the task of the session has
\* finalized the header, closed the file and ended.
C1_StopReturnsAfterFinalize ==
    ret = StopTrue =>
        /\ tasks[LastTask].pc = "dead"
        /\ handles[LastTask].st = "closed"

\* C2: when the file cannot be opened, StartRecording has returned false for
\* that attempt and the recorder is not recording.
C2_OpenFailureFailsStart ==
    [][\A t \in TaskIds :
          (handles[t].st = "none" /\ handles'[t].st = "failed")
              => (tasks[t].start_ret = "false" /\ ~m_is_recording)]_vars

\* C3: at most one recording task is alive at any time.
C3_OneTaskAtATime == Cardinality(Alive) <= 1

\* C4: StartRecording called while m_is_recording is set returns false and
\* changes nothing: path, counter, flag, task handle, file handle, files,
\* FILE objects and tasks are as before, and no task is created.
C4_RejectedStartHasNoEffect ==
    [][(StartStep /\ m_is_recording)
          => /\ ret' = StartFalse
             /\ cpc' = "idle"
             /\ UNCHANGED <<members, tasks, handles, disk, driver, src_pos,
                            crashed>>]_vars

\* a StartRecording has just been rejected while a session's task is at work
C4_Witness ==
    /\ ret = StartFalse /\ m_is_recording
    /\ \E t \in Alive : tasks[t].got # <<>>

\* C5: StopRecording called while m_is_recording is clear returns false at once
\* (no delay), does no file I/O and changes no state of the recorder.
C5_RejectedStopHasNoEffect ==
    [][(StopStep /\ ~m_is_recording)
          => /\ ret' = StopFalse
             /\ cpc' = "idle"
             /\ UNCHANGED <<members, tasks, handles, disk, driver, src_pos,
                            crashed>>]_vars

\* a StopRecording has just been rejected after a session has left a file
C5_Witness ==
    /\ ret = StopFalse /\ ~m_is_recording
    /\ \E p \in Paths : disk[p].exists

\* C6: when a task whose writes all succeeded finalizes (through a valid
\* FILE*), the file it opened holds a header with data_bytes = the number of
\* bytes the task read and wav_size = that + sizeof(WavHeader) - 8, followed by
\* exactly those bytes in read order.
C6_FinalizedFileIsHeaderPlusBlocks ==
    [][\A t \in TaskIds :
          (Leaves(t, "update_304") /\ ~tasks[t].werr /\ ValidFile(m_file_handle))
              => /\ HeaderOf(FileOf(t)').data_bytes = Len(tasks[t].got)
                 /\ HeaderOf(FileOf(t)').wav_size = Len(tasks[t].got) + HeaderSize - 8
                 /\ PayloadOf(FileOf(t)') = PcmOf(t, tasks[t].got)]_vars

\* C7: when StopRecording cleared the flag of a session before its task had
\* got any byte, and the task got none afterwards either, the file the task
\* finalizes (through a valid FILE*) is header-size bytes long, with
\* data_bytes = 0 and wav_size = sizeof(WavHeader) - 8.
C7_EarlyStopGivesEmptyContainer ==
    [][\A t \in TaskIds :
          (/\ Leaves(t, "update_304")
           /\ tasks[t].stop_before_data /\ tasks[t].got = <<>>
           /\ ValidFile(m_file_handle))
              => /\ FileLen(FileOf(t)') = HeaderSize
                 /\ HeaderOf(FileOf(t)').data_bytes = 0
                 /\ HeaderOf(FileOf(t)').wav_size = HeaderSize - 8]_vars

C9_NoBytesOfEarlierSession ==
    (LastTask >= 2 /\ handles[LastTask].st \in {"open", "closed"})
        => \A i \in 1..Len(FileOf(LastTask)) : FileOf(LastTask)[i].w = LastTask

\* C10: the finalize write leaves every header field but wav_size and
\* data_bytes as the placeholder write set it.
C10_FinalizeKeepsOtherFields ==
    [][\A t \in TaskIds :
          (Leaves(t, "update_304") /\ ValidFile(m_file_handle))
              => LET p == handles[m_file_handle].path
                 IN  \A f \in HeaderFields \ SizeFields :
                        HeaderOf(disk'[p].bytes)[f] = HeaderOf(disk[p].bytes)[f]]_vars

\* C11: once an fwrite of a task has stored nothing, the task neither reads
\* from the I2S source nor writes a block again: the session is over.
C11_WriteFailureEndsSession ==
    \A t \in TaskIds :
        tasks[t].werr => tasks[t].pc \notin {"read_290", "fwrite_293"}

\* The scheduler lets every task run again and again (FreeRTOS runs a ready
\* task of priority 5 whenever no task of higher priority is ready), and an
\* i2s_read returns when its 100 ms are over at the latest (line 290).  The
\* control side is not obliged to call anything, but a call it has made
\* returns: xTaskCreate and vTaskDelay(200 ms) do not block for ever.
LiveSpec ==
    /\ Spec
    /\ \A t \in TaskIds : WF_vars(Task(t))
    /\ WF_vars(StartRecording_178_pass \/ StartRecording_178_fail)
    /\ WF_vars(StopRecording_210)
    /\ WF_vars(Destructor_210)

\* C12: once StopRecording has cleared the flag of a session whose task is
\* alive, that task ends (or the firmware has aborted), whatever the control
\* side does afterwards.
C12_StoppedTaskTerminates ==
    \A t \in TaskIds :
        (cpc = "Stop_210" /\ LastTask = t /\ t \in Alive)
            ~> (tasks[t].pc = "dead" \/ crashed)

\* the first sizeof(WavHeader) bytes of a file are one written header record
HasHeader(bytes) ==
    bytes # <<>> /\ bytes[1].k = "hdr" /\ bytes[1].a = 1 /\ bytes[1].b = HeaderSize

\* C13: a block is written to an open file only when that file begins with a
\* header record and the stream stands behind it; and the header is rewritten
\* in a file only when the task that opened the file has left its loop.
C13_HeaderBeforeBlocksFinalizeAfterLoop ==
    [][\A t \in TaskIds :
          /\ (Leaves(t, "fwrite_293") /\ ValidFile(m_file_handle) /\ ~tasks'[t].werr)
                 => /\ HasHeader(disk[handles[m_file_handle].path].bytes)
                    /\ handles[m_file_handle].pos >= HeaderSize
          /\ (Leaves(t, "update_304") /\ ValidFile(m_file_handle))
                 => tasks[m_file_handle].pc \in {"update_304", "fclose_307"}]_vars

\* the step taken is a step of the control side
ControlStep == cpc' # cpc \/ ret'.op # ""

\* C14: no step of the control side changes m_file_handle or
\* m_data_bytes_written, and the count a task whose writes all succeeded
\* passes to update_wav_header is the number of bytes that task got and wrote.
C14_SinkAndCounterOwnedByTask ==
    [][/\ ControlStep => UNCHANGED <<m_file_handle, m_data_bytes_written>>
       /\ \A t \in TaskIds :
             (Leaves(t, "update_304") /\ ~tasks[t].werr)
                 => m_data_bytes_written = Len(tasks[t].got)]_vars

\* the step taken is the StopRecording the destructor calls (line 130)
StopInDestructor == cpc = "idle" /\ cpc' \in {"Destructor_210", "destroyed_rec"}

\* C15 as stated: m_is_recording changes only in StartRecording, from false to
\* true, and in StopRecording, from true to false.
C15_FlagWrittenOnlyByStartAndStop ==
    [][m_is_recording' # m_is_recording
          => \/ StartStep /\ ~m_is_recording /\ m_is_recording'
             \/ (StopStep \/ StopInDestructor) /\ m_is_recording /\ ~m_is_recording']_vars

\* C15 as amended: m_is_recording becomes true only in StartRecording (line
\* 174); it becomes false only in StopRecording (line 204), in StartRecording
\* when xTaskCreate fails (line 189), and in the task's two early exits, fopen
\* failure (line 265) and malloc failure (line 280).  No other step of the
\* task changes it.
C15_FlagWriters ==
    [][m_is_recording' # m_is_recording
          => \/ StartStep /\ cpc' = "Start_178" /\ m_is_recording'
             \/ (StopStep \/ StopInDestructor) /\ ~m_is_recording'
             \/ cpc = "Start_178" /\ ret' = StartFalse /\ ~m_is_recording'
             \/ \E t \in TaskIds :
                   /\ tasks[t].pc \in {"fopen_262", "malloc_275"}
                   /\ tasks'[t].pc = "dead"
                   /\ ~m_is_recording']_vars

\* the task of the only session there was has given up at fopen, and the
\* recorder, which StartRecording left recording, is no longer recording
C15_Witness ==
    /\ LastTask = 1 /\ tasks[1].pc = "dead" /\ handles[1].st = "failed"
    /\ m_recording_task_handle = 1
    /\ ~m_is_recording /\ cpc = "idle"

\* C16: when malloc fails, the task ends there with the file it opened closed
\* and the recorder not recording; and StopRecording does not report success
\* (true) for a session whose task ended that way.
C16_MallocFailureAbortsSession ==
    [][/\ \A t \in TaskIds :
             (tasks[t].pc = "malloc_275" /\ tasks'[t].pc = "dead")
                 => /\ handles'[t].st = "closed"
                    /\ ~m_is_recording'
       /\ (ret' = StopTrue /\ LastTask > 0)
             => tasks'[LastTask].ended_at # "malloc_275"]_vars

\* C17: a step returns true from StartRecording exactly when it creates a
\* task: the new task stands at the start of recording_task_function and
\* m_recording_task_handle is its handle.  When xTaskCreate fails,
\* StartRecording returns false with m_is_recording false and no task created
\* or changed.
C17_StartTrueIffTaskCreated ==
    [][/\ (ret' = StartTrue) <=> (Created' # Created)
       /\ (ret' = StartTrue)
             => /\ Created' = Created \cup {LastTask + 1}
                /\ tasks'[LastTask + 1].pc = "fopen_262"
                /\ m_recording_task_handle' = LastTask + 1
       /\ (cpc = "Start_178" /\ ret' = StartFalse)
             => /\ ~m_is_recording'
                /\ tasks' = tasks]_vars

\* StartRecording has just returned false because xTaskCreate failed, after an
\* earlier session had run
C17_Witness ==
    /\ ret = StartFalse /\ ~m_is_recording /\ cpc = "idle"
    /\ LastTask >= 1

\* the header record stored in the sizeof(WavHeader) bytes at offset pos
HeaderAt(bytes, pos) ==
    LET at == Suffix(Prefix(bytes, pos + HeaderSize), pos)
    IN  IF Len(at) = 1 /\ at[1].k = "hdr" /\ at[1].a = 1 /\ at[1].b = HeaderSize
        THEN at[1].h
        ELSE JunkHeader

\* C18: the header write_wav_header stores has num_channels = 1,
\* fmt_chunk_size = 16, audio_format = 1, sample_rate and bit_depth as
\* configured, byte_rate = sample_rate * 1 * (bit_depth / 8) and
\* sample_alignment = 1 * (bit_depth / 8); and the file a task whose writes all
\* succeeded has finalized is sizeof(WavHeader) + the bytes it got long, with
\* data_bytes = the bytes it got and byte_rate as above: 32000 for 16000 Hz
\* and 16 bits.
C18_HeaderFieldValues ==
    [][\A t \in TaskIds :
          /\ (Leaves(t, "header_271") /\ ValidFile(m_file_handle))
                 => LET f == m_file_handle
                        h == HeaderAt(disk'[handles[f].path].bytes, handles[f].pos)
                    IN  /\ h.num_channels = 1
                        /\ h.fmt_chunk_size = 16
                        /\ h.audio_format = 1
                        /\ h.sample_rate = m_sample_rate
                        /\ h.bit_depth = m_bits_per_sample
                        /\ h.byte_rate = m_sample_rate * 1 * (m_bits_per_sample \div 8)
                        /\ h.sample_alignment = 1 * (m_bits_per_sample \div 8)
          /\ (/\ Leaves(t, "update_304") /\ ValidFile(m_file_handle) /\ ~tasks[t].werr
              /\ m_sample_rate = 16000 /\ m_bits_per_sample = 16)
                 => LET h == HeaderOf(FileOf(t)')
                    IN  /\ FileLen(FileOf(t)') = HeaderSize + Len(tasks[t].got)
                        /\ h.data_bytes = Len(tasks[t].got)
                        /\ h.byte_rate = 32000]_vars

\* task t takes a step that passes m_file_handle to fwrite, fseek, fread or
\* fclose (lines 271, 279, 293, 304, 307)
UsesFile(t) ==
    \/ Leaves(t, "header_271") \/ Leaves(t, "fwrite_293")
    \/ Leaves(t, "update_304") \/ Leaves(t, "fclose_307")
    \/ tasks[t].pc = "malloc_275" /\ tasks'[t].pc = "dead"

\* C19: the FILE* a task passes to stdio is the one it opened itself, and it
\* is open; and when a task that opened a file ends, that file is closed.
C19_OwnOpenHandleClosedOnce ==
    [][\A t \in TaskIds :
          /\ UsesFile(t) => (m_file_handle = t /\ handles[t].st = "open")
          /\ (tasks[t].pc # "dead" /\ tasks'[t].pc = "dead"
                 /\ handles[t].st = "open")
                 => handles'[t].st = "closed"]_vars

\* C20: when the destructor of a recorder that was recording finishes, the
\* task of the session has ended and its file is closed; and once that
\* recorder is destroyed no task takes a step: tasks, members, FILE objects,
\* files and the I2S source stay as they are.
C20_DestructorEndsSession ==
    [][/\ (cpc # "destroyed_rec" /\ cpc' = "destroyed_rec" /\ LastTask > 0)
             => /\ tasks'[LastTask].pc = "dead"
                /\ handles'[LastTask].st \in {"closed", "failed"}
       /\ cpc = "destroyed_rec"
             => UNCHANGED <<tasks, members, handles, disk, src_pos, crashed>>]_vars

====
